---- MODULE Spec2Model ----
(***************************************************************************)
(* Model of custom_components/measureit/meter.py: the three meters         *)
(* (CounterMeter, SourceMeter, TimeMeter), their lifecycle operations and  *)
(* their persistence (to_dict / from_dict).                                *)
(*                                                                         *)
(* A Decimal is modelled by an integer.  An attribute that may hold None   *)
(* (source_value and session_start_value of a SourceMeter) is modelled by  *)
(* an optional value: None is the empty sequence, a known Decimal d is the *)
(* one-element sequence <<d>>.  Arithmetic on None raises TypeError in the  *)
(* program; an operation of the model returns the meter as the program     *)
(* leaves it together with a flag telling whether the call raised.         *)
(* The attribute _session_total is written by stop/update and never read,  *)
(* so it is not part of the state.                                         *)
(***************************************************************************)
EXTENDS Integers, Sequences, FiniteSets, TLC

\* ---- bounds ----
MaxValue == 2        \* readings and increments are drawn from 0..MaxValue
MaxTime == 3         \* the clock runs from 0 to MaxTime
MaxMeasured == 4     \* calls whose result leaves -MaxMeasured..MaxMeasured are not explored

VARIABLES
    meter,         \* the meter object: its variant and its attributes
    now,           \* what datetime.utcnow().timestamp() reads
    op,            \* the last call made: its name and its argument
    raised,        \* whether the last call raised
    pre,           \* the meter as it was before the last call
    counted, reset_time, paused_at, idle_reading,   \* history, see below
    session_origin, reset_total, active_total, opened_at, restart

vars == <<meter, now, op, raised, pre,
          counted, reset_time, paused_at, idle_reading,
          session_origin, reset_total, active_total, opened_at, restart>>

\* ---- optional values ----
None == <<>>
Dec(d) == <<d>>
Known(x) == x # None
Val(x) == x[1]

Values == 0..MaxValue
OptValues == {None} \cup {Dec(v) : v \in Values}
Kinds == {"CounterMeter", "SourceMeter", "TimeMeter"}

\* outcome of a call: the meter as the call leaves it, and whether it raised
Ok(m) == [m |-> m, raised |-> FALSE]
Raise(m) == [m |-> m, raised |-> TRUE]

\* ---- construction ----
MeasureItMeter_init(kind) ==
    [kind |-> kind,
     measured_value |-> 0,
     prev_measured_value |-> 0,
     measuring |-> FALSE,
     session_start_value |-> None,
     session_start_measured_value |-> 0,
     source_value |-> None]

CounterMeter_init == MeasureItMeter_init("CounterMeter")

SourceMeter_init(source_value) ==
    [MeasureItMeter_init("SourceMeter") EXCEPT
        !.session_start_value = Dec(0),
        !.session_start_measured_value = 0,
        !.source_value = source_value]

TimeMeter_init ==
    [MeasureItMeter_init("TimeMeter") EXCEPT
        !.session_start_value = Dec(0),
        !.session_start_measured_value = 0]

\* ---- CounterMeter ----
CounterMeter_start(m) == Ok([m EXCEPT !.measuring = TRUE])

CounterMeter_stop(m) == Ok([m EXCEPT !.measuring = FALSE])

\* variant of update(): the value is added whether or not the meter is measuring
CounterMeter_update_AlwaysAdds(m, value) ==
    IF Known(value)
    THEN Ok([m EXCEPT !.measured_value = m.measured_value + Val(value)])
    ELSE IF m.measuring THEN Raise(m) ELSE Ok(m)

\* variant of update(): an absent value counts as 0 instead of raising
CounterMeter_update_NoneAsZero(m, value) ==
    IF m.measuring
    THEN Ok([m EXCEPT !.measured_value =
                m.measured_value + (IF Known(value) THEN Val(value) ELSE 0)])
    ELSE Ok(m)


CounterMeter_update(m, value) ==
    IF m.measuring
    THEN IF Known(value)
         THEN Ok([m EXCEPT !.measured_value = m.measured_value + Val(value)])
         ELSE Raise(m)
    ELSE Ok(m)

CounterMeter_reset(m) ==
    Ok([m EXCEPT !.prev_measured_value = m.measured_value,
                 !.measured_value = 0])

\* ---- SourceMeter ----
\* variant of start(): the session keeps the anchor of the previous session
SourceMeter_start_KeepsAnchor(m) ==
    Ok([m EXCEPT !.measuring = TRUE,
                 !.session_start_measured_value = m.measured_value])


\* variant of start(): the session starts from zero
SourceMeter_start_FromZero(m) ==
    Ok([m EXCEPT !.measuring = TRUE,
                 !.session_start_value = m.source_value,
                 !.session_start_measured_value = 0])


SourceMeter_start(m) ==
    Ok([m EXCEPT !.measuring = TRUE,
                 !.session_start_value = m.source_value,
                 !.session_start_measured_value = m.measured_value])

SourceMeter_stop(m) ==
    LET m1 == [m EXCEPT !.measuring = FALSE]
    IN  IF Known(m1.source_value) /\ Known(m1.session_start_value)
        THEN Ok([m1 EXCEPT !.measured_value =
                    m1.session_start_measured_value
                    + (Val(m1.source_value) - Val(m1.session_start_value))])
        ELSE Raise(m1)

\* variant of update(): measured_value is clamped at zero
SourceMeter_update_Clamped(m, value) ==
    LET m1 == [m EXCEPT !.source_value = value]
    IN  IF m1.measuring
        THEN IF Known(m1.source_value) /\ Known(m1.session_start_value)
             THEN LET v == m1.session_start_measured_value
                           + (Val(m1.source_value) - Val(m1.session_start_value))
                  IN  Ok([m1 EXCEPT !.measured_value = IF v < 0 THEN 0 ELSE v])
             ELSE Raise(m1)
        ELSE Ok(m1)


\* variant of update(): a failed update ends the session
SourceMeter_update_EndsSession(m, value) ==
    LET m1 == [m EXCEPT !.source_value = value]
    IN  IF m1.measuring
        THEN IF Known(m1.source_value) /\ Known(m1.session_start_value)
             THEN Ok([m1 EXCEPT !.measured_value =
                         m1.session_start_measured_value
                         + (Val(m1.source_value) - Val(m1.session_start_value))])
             ELSE Raise([m1 EXCEPT !.measuring = FALSE])
        ELSE Ok(m1)


SourceMeter_update(m, value) ==
    LET m1 == [m EXCEPT !.source_value = value]
    IN  IF m1.measuring
        THEN IF Known(m1.source_value) /\ Known(m1.session_start_value)
             THEN Ok([m1 EXCEPT !.measured_value =
                         m1.session_start_measured_value
                         + (Val(m1.source_value) - Val(m1.session_start_value))])
             ELSE Raise(m1)
        ELSE Ok(m1)

\* variant of reset(): a measuring meter is zeroed without a new anchor
SourceMeter_reset_NoReanchor(m) ==
    IF m.measuring
    THEN LET s == SourceMeter_stop(m)
         IN  IF s.raised
             THEN s
             ELSE Ok([s.m EXCEPT !.prev_measured_value = s.m.measured_value,
                                 !.measured_value = 0,
                                 !.measuring = TRUE])
    ELSE Ok([m EXCEPT !.prev_measured_value = m.measured_value,
                      !.measured_value = 0])


SourceMeter_reset(m) ==
    IF m.measuring
    THEN LET s == SourceMeter_stop(m)
         IN  IF s.raised
             THEN s
             ELSE SourceMeter_start(
                      [s.m EXCEPT !.prev_measured_value = s.m.measured_value,
                                  !.measured_value = 0])
    ELSE Ok([m EXCEPT !.prev_measured_value = m.measured_value,
                      !.measured_value = 0])

\* ---- TimeMeter ----
get_timestamp == now

\* variant of start(): the session starts from zero
TimeMeter_start_FromZero(m) ==
    Ok([m EXCEPT !.measuring = TRUE,
                 !.session_start_value = Dec(get_timestamp),
                 !.session_start_measured_value = 0])

\* variant of start(): a meter that is measuring keeps its session
TimeMeter_start_KeepsSession(m) ==
    IF m.measuring
    THEN Ok(m)
    ELSE Ok([m EXCEPT !.measuring = TRUE,
                      !.session_start_value = Dec(get_timestamp),
                      !.session_start_measured_value = m.measured_value])


TimeMeter_start(m) ==
    Ok([m EXCEPT !.measuring = TRUE,
                 !.session_start_value = Dec(get_timestamp),
                 !.session_start_measured_value = m.measured_value])

\* variant of stop(): the value before the stop is kept as previous value
TimeMeter_stop_Snapshots(m) ==
    LET m1 == [m EXCEPT !.measuring = FALSE,
                        !.prev_measured_value = m.measured_value]
    IN  Ok([m1 EXCEPT !.measured_value =
               m1.session_start_measured_value
               + (get_timestamp - Val(m1.session_start_value))])


TimeMeter_stop(m) ==
    LET m1 == [m EXCEPT !.measuring = FALSE]
    IN  Ok([m1 EXCEPT !.measured_value =
               m1.session_start_measured_value
               + (get_timestamp - Val(m1.session_start_value))])

\* variant of update(): the value at the start of the session is forgotten
TimeMeter_update_SessionOnly(m, value) ==
    IF m.measuring
    THEN Ok([m EXCEPT !.measured_value =
                get_timestamp - Val(m.session_start_value)])
    ELSE Ok(m)


TimeMeter_update(m, value) ==
    IF m.measuring
    THEN Ok([m EXCEPT !.measured_value =
                m.session_start_measured_value
                + (get_timestamp - Val(m.session_start_value))])
    ELSE Ok(m)

\* variant of reset(): the snapshot is taken before the open session is folded
TimeMeter_reset_SnapshotFirst(m) ==
    LET m1 == [m EXCEPT !.prev_measured_value = m.measured_value]
        m2 == IF m1.measuring THEN TimeMeter_stop(m1).m ELSE m1
    IN  Ok([m2 EXCEPT !.measured_value = 0])


TimeMeter_reset(m) ==
    LET m1 == IF m.measuring THEN TimeMeter_stop(m).m ELSE m
        m2 == [m1 EXCEPT !.prev_measured_value = m1.measured_value,
                         !.measured_value = 0]
    IN  IF m2.measuring THEN TimeMeter_start(m2) ELSE Ok(m2)

\* ---- dispatch on the variant ----
start(m) ==
    CASE m.kind = "CounterMeter" -> CounterMeter_start(m)
      [] m.kind = "SourceMeter" -> SourceMeter_start(m)
      [] m.kind = "TimeMeter" -> TimeMeter_start(m)

stop(m) ==
    CASE m.kind = "CounterMeter" -> CounterMeter_stop(m)
      [] m.kind = "SourceMeter" -> SourceMeter_stop(m)
      [] m.kind = "TimeMeter" -> TimeMeter_stop(m)

update(m, value) ==
    CASE m.kind = "CounterMeter" -> CounterMeter_update(m, value)
      [] m.kind = "SourceMeter" -> SourceMeter_update(m, value)
      [] m.kind = "TimeMeter" -> TimeMeter_update(m, value)

reset(m) ==
    CASE m.kind = "CounterMeter" -> CounterMeter_reset(m)
      [] m.kind = "SourceMeter" -> SourceMeter_reset(m)
      [] m.kind = "TimeMeter" -> TimeMeter_reset(m)

\* ---- persistence ----
\* Decimal(x): a Decimal converts to itself, None raises TypeError, a value
\* that is not a number raises InvalidOperation, a missing key raises
\* KeyError.
NotANumber == <<0, 0>>

CanDecimal(data, key) == key \in DOMAIN data /\ Len(data[key]) = 1

MeasureItMeter_to_dict(m) ==
    [measured_value |-> Dec(m.measured_value),
     prev_measured_value |-> Dec(m.prev_measured_value),
     measuring |-> m.measuring]

MeasureItMeter_from_dict(m, data) ==
    IF ~CanDecimal(data, "measured_value") THEN Raise(m)
    ELSE LET m1 == [m EXCEPT !.measured_value = Val(data.measured_value)]
         IN  IF ~CanDecimal(data, "prev_measured_value") THEN Raise(m1)
             ELSE LET m2 == [m1 EXCEPT !.prev_measured_value =
                                           Val(data.prev_measured_value)]
                  IN  IF "measuring" \notin DOMAIN data THEN Raise(m2)
                      ELSE Ok([m2 EXCEPT !.measuring = (data.measuring = TRUE)])

SessionFields_from_dict(m, data) ==
    LET b == MeasureItMeter_from_dict(m, data)
    IN  IF b.raised THEN b
        ELSE IF ~CanDecimal(data, "session_start_value") THEN Raise(b.m)
        ELSE LET m1 == [b.m EXCEPT !.session_start_value =
                                       Dec(Val(data.session_start_value))]
             IN  IF ~CanDecimal(data, "session_start_measured_value")
                 THEN Raise(m1)
                 ELSE Ok([m1 EXCEPT !.session_start_measured_value =
                                        Val(data.session_start_measured_value)])

SourceMeter_to_dict(m) ==
    [measured_value |-> Dec(m.measured_value),
     prev_measured_value |-> Dec(m.prev_measured_value),
     measuring |-> m.measuring,
     session_start_value |-> m.session_start_value,
     session_start_measured_value |-> Dec(m.session_start_measured_value),
     source_value |-> m.source_value]

\* "if self._source_value:" is the truth value of the attribute:
\* None and Decimal(0) are both false.
Truthy(x) == Known(x) /\ Val(x) # 0

SourceMeter_from_dict(m, data) ==
    LET s == SessionFields_from_dict(m, data)
    IN  IF s.raised THEN s
        ELSE IF Truthy(s.m.source_value)
             THEN SourceMeter_update(s.m, s.m.source_value)
             ELSE IF ~CanDecimal(data, "source_value") THEN Raise(s.m)
                  ELSE Ok([s.m EXCEPT !.source_value =
                                          Dec(Val(data.source_value))])

TimeMeter_to_dict(m) ==
    [measured_value |-> Dec(m.measured_value),
     prev_measured_value |-> Dec(m.prev_measured_value),
     measuring |-> m.measuring,
     session_start_value |-> m.session_start_value,
     session_start_measured_value |-> Dec(m.session_start_measured_value)]

TimeMeter_from_dict(m, data) == SessionFields_from_dict(m, data)

to_dict(m) ==
    CASE m.kind = "CounterMeter" -> MeasureItMeter_to_dict(m)
      [] m.kind = "SourceMeter" -> SourceMeter_to_dict(m)
      [] m.kind = "TimeMeter" -> TimeMeter_to_dict(m)

from_dict(m, data) ==
    CASE m.kind = "CounterMeter" -> MeasureItMeter_from_dict(m, data)
      [] m.kind = "SourceMeter" -> SourceMeter_from_dict(m, data)
      [] m.kind = "TimeMeter" -> TimeMeter_from_dict(m, data)

\* a meter as its owner constructs it
Construct(kind, source_value) ==
    CASE kind = "CounterMeter" -> CounterMeter_init
      [] kind = "SourceMeter" -> SourceMeter_init(source_value)
      [] kind = "TimeMeter" -> TimeMeter_init

\* ---- the state machine ----
Abs(x) == IF x < 0 THEN 0 - x ELSE x

InRange(m) ==
    /\ Abs(m.measured_value) <= MaxMeasured
    /\ Abs(m.prev_measured_value) <= MaxMeasured
    /\ Abs(m.session_start_measured_value) <= MaxMeasured

CtorArgs(kind) == IF kind = "SourceMeter" THEN OptValues ELSE {None}

RestoreNames == {"restore", "restore_malformed"}

\* ---- history variables (observations of the calls made so far) ----
\* counted: sum of the values passed to update() of a CounterMeter while it
\* was measuring, since the most recent reset() (or since construction)
counted_next(name, value) ==
    IF meter.kind # "CounterMeter" THEN counted
    ELSE IF name \in {"reset", "restore_malformed"} THEN 0
    ELSE IF name = "update" /\ meter.measuring /\ Known(value)
         THEN counted + Val(value)
    ELSE counted

\* reset_time: the clock reading at which a TimeMeter was reset while it was
\* measuring, as long as no start(), stop() or restore followed
reset_time_next(name) ==
    IF meter.kind # "TimeMeter" THEN reset_time
    ELSE IF name = "reset"
         THEN IF meter.measuring THEN Dec(now) ELSE None
    ELSE IF name \in {"start", "stop"} \cup RestoreNames THEN None
    ELSE reset_time

\* paused_at: measured_value of a SourceMeter as its last stop() (or its
\* construction) left it; idle_reading: the reading of the last update(v)
\* made while idle after that.  Both are forgotten at a reset(), a restore or an update
\* without a value.
paused_at_next(name, value, out) ==
    IF meter.kind # "SourceMeter" THEN paused_at
    ELSE IF name = "stop"
         THEN IF out.raised THEN None ELSE Dec(out.m.measured_value)
    ELSE IF name \in {"reset"} \cup RestoreNames THEN None
    ELSE IF name = "update" /\ ~Known(value) THEN None
    ELSE paused_at

idle_reading_next(name, value, out) ==
    IF meter.kind # "SourceMeter" THEN idle_reading
    ELSE IF name \in {"stop", "reset"} \cup RestoreNames THEN None
    ELSE IF name = "update"
         THEN IF ~Known(value) \/ ~Known(paused_at) THEN None
              ELSE IF ~meter.measuring THEN value ELSE idle_reading
    ELSE idle_reading

\* session_origin: for a SourceMeter that has been measuring since a
\* start() made at a known reading s0, (measured_value at that start) - s0;
\* reset_total: the sum of the prev_measured_value captured by each reset()
\* since that start()
session_origin_next(name, out) ==
    IF meter.kind # "SourceMeter" THEN session_origin
    ELSE IF name = "start"
         THEN IF Known(meter.source_value)
              THEN Dec(meter.measured_value - Val(meter.source_value))
              ELSE None
    ELSE IF name = "update" THEN session_origin
    ELSE IF name = "reset" /\ meter.measuring /\ ~out.raised
         THEN session_origin
    ELSE None

reset_total_next(name, out) ==
    IF meter.kind # "SourceMeter" THEN reset_total
    ELSE IF name = "update" THEN reset_total
    ELSE IF name = "reset" /\ Known(session_origin_next(name, out))
         THEN reset_total + out.m.prev_measured_value
    ELSE 0

\* active_total: for a TimeMeter driven only by sessions that a start() on
\* the idle meter opens and a stop() closes (update() calls in between), the
\* sum of the durations of the closed sessions; opened_at: the clock reading
\* at which the open session was opened
active_total_next(name) ==
    IF meter.kind # "TimeMeter" THEN active_total
    ELSE IF name = "update" THEN active_total
    ELSE IF name = "start" /\ ~meter.measuring THEN active_total
    ELSE IF name = "stop" /\ meter.measuring
            /\ Known(active_total) /\ Known(opened_at)
         THEN Dec(Val(active_total) + (now - Val(opened_at)))
    ELSE None

opened_at_next(name) ==
    IF meter.kind # "TimeMeter" THEN opened_at
    ELSE IF name = "update" THEN opened_at
    ELSE IF name = "start" /\ ~meter.measuring THEN Dec(now)
    ELSE None

\* restart: set by a start() on a TimeMeter that is already measuring, as
\* long as only update() calls follow: the clock reading at that start(),
\* measured_value at that start(), and the time that had elapsed since the
\* last update() and was not in measured_value
restart_next(name) ==
    IF meter.kind # "TimeMeter" THEN restart
    ELSE IF name = "update" THEN restart
    ELSE IF name = "start" /\ meter.measuring
         THEN <<now, meter.measured_value,
                (meter.session_start_measured_value
                 + (now - Val(meter.session_start_value)))
                - meter.measured_value>>
    ELSE None

InitWith(kind, sv) ==
    /\ meter = Construct(kind, sv)
    /\ op = [name |-> "init", value |-> sv]
    /\ pre = meter
    /\ raised = FALSE
    /\ counted = 0
    /\ reset_time = None
    /\ paused_at = (IF kind = "SourceMeter" THEN Dec(0) ELSE None)
    /\ idle_reading = None
    /\ session_origin = None
    /\ reset_total = 0
    /\ active_total = (IF kind = "TimeMeter" THEN Dec(0) ELSE None)
    /\ opened_at = None
    /\ restart = None

Init ==
    /\ \E kind \in Kinds : \E sv \in CtorArgs(kind) : InitWith(kind, sv)
    /\ now = 0

\* A from_dict() that raised leaves a meter that is restored in part.  Its
\* owner discards it (or lets the error propagate): no lifecycle call is
\* made on it.  A meter restored from a malformed snapshot is not followed
\* any further either.
Discarded ==
    \/ op.name \in RestoreNames /\ raised
    \/ op.name = "restore_malformed"

\* a call o made on the meter before, with the outcome out
CallFrom(o, before, out) ==
    /\ ~Discarded
    /\ InRange(out.m)
    /\ pre' = before
    /\ meter' = out.m
    /\ raised' = out.raised
    /\ op' = o
    /\ now' = now
    /\ counted' = counted_next(o.name, o.value)
    /\ reset_time' = reset_time_next(o.name)
    /\ paused_at' = paused_at_next(o.name, o.value, out)
    /\ idle_reading' = idle_reading_next(o.name, o.value, out)
    /\ session_origin' = session_origin_next(o.name, out)
    /\ reset_total' = reset_total_next(o.name, out)
    /\ active_total' = active_total_next(o.name)
    /\ opened_at' = opened_at_next(o.name)
    /\ restart' = restart_next(o.name)

Call(name, value, out) ==
    CallFrom([name |-> name, value |-> value], meter, out)

Start == Call("start", None, start(meter))

Stop == Call("stop", None, stop(meter))

Update == \E value \in OptValues : Call("update", value, update(meter, value))

Reset == Call("reset", None, reset(meter))

\* the owner persists the meter, restarts, constructs a new meter (a
\* SourceMeter with the reading it has at that moment) and restores it
Restore ==
    \E sv \in CtorArgs(meter.kind) :
        Call("restore", sv,
             from_dict(Construct(meter.kind, sv), to_dict(meter)))

\* the owner of a discarded meter starts afresh with a new meter
Rebuild ==
    /\ Discarded
    /\ \E sv \in CtorArgs(meter.kind) :
          /\ meter' = Construct(meter.kind, sv)
          /\ op' = [name |-> "init", value |-> sv]
    /\ pre' = meter'
    /\ raised' = FALSE
    /\ now' = now
    /\ counted' = 0
    /\ reset_time' = None
    /\ paused_at' = (IF meter.kind = "SourceMeter" THEN Dec(0) ELSE None)
    /\ idle_reading' = None
    /\ session_origin' = None
    /\ reset_total' = 0
    /\ active_total' = (IF meter.kind = "TimeMeter" THEN Dec(0) ELSE None)
    /\ opened_at' = None
    /\ restart' = None

\* the clock advances (only a TimeMeter reads it)
Tick ==
    /\ ~Discarded
    /\ meter.kind = "TimeMeter"
    /\ now < MaxTime
    /\ now' = now + 1
    /\ op' = [name |-> "tick", value |-> None]
    /\ pre' = meter
    /\ raised' = FALSE
    /\ UNCHANGED <<meter, counted, reset_time, paused_at, idle_reading,
                   session_origin, reset_total, active_total, opened_at,
                   restart>>

Next == Start \/ Stop \/ Update \/ Reset \/ Restore \/ Rebuild \/ Tick

Spec == Init /\ [][Next]_vars

\* ---- restoring a snapshot that is malformed ----
\* the snapshot data with the field key missing
Without(data, key) == [k \in DOMAIN data \ {key} |-> data[k]]

\* the snapshot data with a value in the field key that is not what
\* to_dict() wrote: something Decimal() cannot convert, or for the field
\* measuring any value at all, of which bool() makes a truth value
Garbled(data, key) ==
    IF key = "measuring"
    THEN {[data EXCEPT ![key] = b] : b \in BOOLEAN}
    ELSE {[data EXCEPT ![key] = NotANumber]}

\* the owner restores a new meter from a snapshot of which one field is
\* missing or unparseable; pre is the new meter before from_dict()
RestoreMalformed ==
    \E sv \in CtorArgs(meter.kind) :
    \E key \in DOMAIN to_dict(meter) :
        \/ CallFrom([name |-> "restore_malformed", value |-> sv,
                     key |-> key, fault |-> "missing"],
                    Construct(meter.kind, sv),
                    from_dict(Construct(meter.kind, sv),
                              Without(to_dict(meter), key)))
        \/ \E data \in Garbled(to_dict(meter), key) :
             CallFrom([name |-> "restore_malformed", value |-> sv,
                       key |-> key, fault |-> "unparseable"],
                      Construct(meter.kind, sv),
                      from_dict(Construct(meter.kind, sv), data))

NextMalformed == Next \/ RestoreMalformed

SpecMalformed == Init /\ [][NextMalformed]_vars

\* ---- properties ----
Called(name) == op.name = name
Returned(name) == op.name = name /\ ~raised
IsCounter == meter.kind = "CounterMeter"
IsSource == meter.kind = "SourceMeter"
IsTime == meter.kind = "TimeMeter"

\* measured_value of m with its open session folded in, as a stop() or an
\* update() made now computes it from the session anchors
Folded(m) ==
    IF m.measuring /\ m.kind = "TimeMeter"
    THEN m.session_start_measured_value + (now - Val(m.session_start_value))
    ELSE IF m.measuring /\ m.kind = "SourceMeter"
    THEN m.session_start_measured_value
         + (Val(m.source_value) - Val(m.session_start_value))
    ELSE m.measured_value

\* I3 of a SourceMeter m
I3(m) ==
    /\ Known(m.source_value)
    /\ Known(m.session_start_value)
    /\ m.measured_value = m.session_start_measured_value
                          + (Val(m.source_value) - Val(m.session_start_value))

\* C1: reset() leaves the measuring flag as it was before the call, for
\* every variant and every state.
C1_ResetKeepsMeasuring ==
    Returned("reset") => meter.measuring = pre.measuring

\* C2 as stated: after reset(), prev_measured_value is the measured_value
\* that was observable before the call and measured_value is 0.
C2_ResetConservation ==
    Returned("reset") =>
        /\ meter.prev_measured_value = pre.measured_value
        /\ meter.measured_value = 0

\* C2 amended: after a reset() that returns, measured_value is 0 and
\* prev_measured_value is the measured_value before the call with the open
\* session folded in: for a meter that was measuring,
\* session_start_measured_value + (now - session_start_value) (TimeMeter)
\* or session_start_measured_value + (source_value - session_start_value)
\* (SourceMeter); for an idle meter and for a CounterMeter the
\* measured_value observable before the call.
C2_ResetConservationFolded ==
    Returned("reset") =>
        /\ meter.prev_measured_value = Folded(pre)
        /\ meter.measured_value = 0

C2_Witness ==
    /\ Returned("reset")
    /\ IsTime
    /\ pre.measuring
    /\ Folded(pre) # pre.measured_value
    /\ meter.prev_measured_value > 0

\* C3: a TimeMeter reset while measuring at time t1 and updated at time
\* t2 >= t1, with no start() or stop() in between, has
\* measured_value = t2 - t1.
C3_TimingAcrossReset ==
    (IsTime /\ Returned("update") /\ Known(reset_time)) =>
        meter.measured_value = now - Val(reset_time)

\* C4: stop() on a meter that is not measuring leaves measured_value and
\* prev_measured_value unchanged.
C4_IdleStopNoEffect ==
    (Called("stop") /\ ~pre.measuring) =>
        /\ meter.measured_value = pre.measured_value
        /\ meter.prev_measured_value = pre.prev_measured_value

\* C5: after every update(v) of a measuring SourceMeter and after every
\* stop() that ends a session, measured_value =
\* session_start_measured_value + (source_value - session_start_value);
\* a reading lower than the previous one lowers measured_value by the
\* difference, below zero if need be.
C5_SourceSessionInvariant ==
    /\ (IsSource /\ pre.measuring /\ (Returned("update") \/ Returned("stop")))
          => I3(meter)
    /\ (IsSource /\ pre.measuring /\ Returned("update") /\ I3(pre)) =>
          meter.measured_value - pre.measured_value
              = Val(op.value) - Val(pre.source_value)

C5_Witness ==
    /\ IsSource
    /\ pre.measuring
    /\ Returned("update")
    /\ I3(pre)
    /\ Val(op.value) < Val(pre.source_value)
    /\ meter.measured_value < 0
    /\ meter.measured_value < pre.measured_value

\* C6: update(v) on an idle SourceMeter records v and leaves measured_value
\* alone; the start() that follows anchors the session at v; a later
\* update(w) gives measured_value = (its value at the preceding stop)
\* + (w - v).
C6_DeltaContinuity ==
    /\ (IsSource /\ Called("update") /\ ~pre.measuring) =>
          /\ ~raised
          /\ meter.source_value = op.value
          /\ meter.measured_value = pre.measured_value
    /\ (IsSource /\ Called("start")) =>
          /\ meter.session_start_value = pre.source_value
          /\ meter.session_start_measured_value = pre.measured_value
    /\ (IsSource /\ Called("update") /\ pre.measuring
          /\ Known(paused_at) /\ Known(idle_reading)) =>
          /\ ~raised
          /\ meter.measured_value
                = Val(paused_at) + (Val(op.value) - Val(idle_reading))

C6_Witness ==
    /\ IsSource
    /\ Returned("update")
    /\ pre.measuring
    /\ Known(paused_at)
    /\ Known(idle_reading)
    /\ Val(paused_at) # 0
    /\ Val(op.value) # Val(idle_reading)

\* C7: measured_value of a CounterMeter is the sum of the values passed to
\* update() while measuring since the most recent reset(); update() on an
\* idle CounterMeter changes nothing.
C7_CounterAccumulation ==
    /\ IsCounter => meter.measured_value = counted
    /\ (IsCounter /\ Called("update") /\ ~pre.measuring) =>
          (meter = pre /\ ~raised)

C7_Witness ==
    /\ IsCounter
    /\ Returned("update")
    /\ pre.measuring
    /\ pre.measured_value > 0
    /\ meter.measured_value > pre.measured_value
    /\ meter.prev_measured_value > 0

\* C8: from_dict(m.to_dict()) on a new meter of the same variant (a
\* SourceMeter constructed without a reading) succeeds and gives the
\* measured_value, prev_measured_value, measuring and session anchors of m.
C8_RoundTrip ==
    (Called("restore") /\ op.value = None) =>
        /\ ~raised
        /\ meter.measured_value = pre.measured_value
        /\ meter.prev_measured_value = pre.prev_measured_value
        /\ meter.measuring = pre.measuring
        /\ meter.session_start_value = pre.session_start_value
        /\ meter.session_start_measured_value
              = pre.session_start_measured_value

\* C9: a SourceMeter constructed with a reading L (zero included) has
\* source_value = L after from_dict(snapshot), and measured_value =
\* snapshot.session_start_measured_value + (L - snapshot.session_start_value)
\* when the snapshot is measuring; only a meter constructed without a
\* reading takes source_value from the snapshot.
C9_RestoreReconciliation ==
    (IsSource /\ Returned("restore")) =>
        IF Known(op.value)
        THEN /\ meter.source_value = op.value
             /\ pre.measuring =>
                   meter.measured_value
                      = pre.session_start_measured_value
                        + (Val(op.value) - Val(pre.session_start_value))
        ELSE meter.source_value = pre.source_value

\* C10: update() without a value on a measuring CounterMeter or SourceMeter
\* fails and leaves measured_value and prev_measured_value as they were.
C10_UpdateWithoutValueFails ==
    (Called("update") /\ op.value = None /\ pre.measuring
        /\ (IsCounter \/ IsSource)) =>
        /\ raised
        /\ meter.measured_value = pre.measured_value
        /\ meter.prev_measured_value = pre.prev_measured_value

C10_Witness ==
    /\ Called("update")
    /\ op.value = None
    /\ pre.measuring
    /\ IsSource
    /\ raised
    /\ pre.measured_value # 0
    /\ Known(pre.source_value)
\* C11: restoring any variant from a snapshot in which one field is missing
\* or unparseable fails, and the meter keeps the measured_value and
\* prev_measured_value it had before the call (those of the new meter).
C11_MalformedRestoreFails ==
    Called("restore_malformed") =>
        /\ raised
        /\ meter.measured_value = pre.measured_value
        /\ meter.prev_measured_value = pre.prev_measured_value

\* C12: update() never changes the measuring flag, whatever its argument
\* and whether or not it raises; the flag changes only in start(), stop(),
\* reset() and a restore.
C12_UpdateKeepsMeasuring ==
    /\ Called("update") => meter.measuring = pre.measuring
    /\ meter.measuring # pre.measuring =>
          op.name \in {"start", "stop", "reset"} \cup RestoreNames

C12_Witness ==
    /\ Called("update")
    /\ IsSource
    /\ Known(op.value)
    /\ raised
    /\ pre.measuring
    /\ meter.measuring

\* I4 of a TimeMeter m
I4(m) ==
    m.measured_value
        = m.session_start_measured_value + (now - Val(m.session_start_value))

\* C13 as stated: in every reachable state in which a TimeMeter is
\* measuring, measured_value = session_start_measured_value
\* + (now - session_start_value).
C13_TimeInvariant ==
    (IsTime /\ meter.measuring) => I4(meter)

\* C13 amended: I4 holds immediately after every start() and every update()
\* of a measuring TimeMeter and after the stop() that ends a session (not
\* in the states in which the clock has advanced since the last call).
C13_TimeInvariantAfterCall ==
    /\ (IsTime /\ meter.measuring /\ (Returned("start") \/ Returned("update")))
          => I4(meter)
    /\ (IsTime /\ pre.measuring /\ Returned("stop")) => I4(meter)

C13_Witness ==
    /\ IsTime
    /\ meter.measuring
    /\ Returned("update")
    /\ pre.measured_value # meter.measured_value
    /\ meter.session_start_measured_value > 0
    /\ now > Val(meter.session_start_value)

\* C14: for a SourceMeter that stays measuring from a start() at reading s0
\* through update() and reset() calls, the sum of the prev_measured_value
\* captured by the resets plus measured_value equals
\* (measured_value at that start) + (source_value - s0).
C14_NothingLostOverResets ==
    (IsSource /\ meter.measuring /\ Known(session_origin)
        /\ Known(meter.source_value)) =>
        reset_total + meter.measured_value
            = Val(session_origin) + Val(meter.source_value)

C14_Witness ==
    /\ IsSource
    /\ meter.measuring
    /\ Known(session_origin)
    /\ Returned("update")
    /\ reset_total > 0
    /\ meter.measured_value > 0
    /\ meter.prev_measured_value # reset_total

\* C15: update() on an idle TimeMeter leaves measured_value unchanged
\* however far the clock advanced; after sessions each opened by start() on
\* the idle meter and closed by stop(), with no reset(), measured_value is
\* the sum of the durations of the sessions.
C15_OnlyActiveTime ==
    /\ (IsTime /\ Called("update") /\ ~pre.measuring) =>
          (~raised /\ meter.measured_value = pre.measured_value)
    /\ (IsTime /\ ~meter.measuring /\ Known(active_total)) =>
          meter.measured_value = Val(active_total)

C15_Witness ==
    /\ IsTime
    /\ Returned("stop")
    /\ pre.measuring
    /\ Known(active_total)
    /\ meter.session_start_measured_value > 0
    /\ now > Val(meter.session_start_value)
    /\ Val(meter.session_start_value) > meter.session_start_measured_value

\* C16: start() on a SourceMeter or TimeMeter that is already measuring
\* keeps it measuring and anchors the session anew: session_start_value is
\* the clock reading (TimeMeter) or source_value (SourceMeter) and
\* session_start_measured_value is measured_value; an update() of the
\* TimeMeter at time t then gives (measured_value at that start)
\* + (t - time of that start), without the time that had elapsed between
\* the last update() and that start.
C16_ReentrantStart ==
    /\ (Called("start") /\ pre.measuring /\ (IsSource \/ IsTime)) =>
          /\ ~raised
          /\ meter.measuring
          /\ meter.session_start_value
                = (IF IsTime THEN Dec(now) ELSE pre.source_value)
          /\ meter.session_start_measured_value = pre.measured_value
          /\ meter.measured_value = pre.measured_value
    /\ (IsTime /\ Returned("update") /\ Known(restart)) =>
          meter.measured_value = restart[2] + (now - restart[1])

C16_Witness ==
    /\ IsTime
    /\ Returned("update")
    /\ Known(restart)
    /\ restart[3] > 0
    /\ now > restart[1]

\* C17: prev_measured_value is 0 at construction, and start(), stop() and
\* update() leave it unchanged (as does the clock): only reset() and a
\* restore change it.
C17_PrevChangedOnlyByReset ==
    /\ Called("init") => meter.prev_measured_value = 0
    /\ op.name \in {"start", "stop", "update", "tick"} =>
          meter.prev_measured_value = pre.prev_measured_value

C17_Witness ==
    /\ Called("stop")
    /\ pre.measuring
    /\ meter.measured_value # pre.measured_value
    /\ meter.prev_measured_value # 0
    /\ meter.prev_measured_value # pre.measured_value

\* C18: a SourceMeter started without a reading is brought to a working
\* state by the update(v) that follows: the update succeeds, the meter is
\* measuring and measured_value is the delta from the session anchor.
C18_UpdateAfterStartWithoutReading ==
    (IsSource /\ Called("update") /\ Known(op.value)
        /\ pre.measuring /\ ~Known(pre.session_start_value)) =>
        /\ ~raised
        /\ meter.measuring
        /\ I3(meter)

\* the calls that may follow, and what a call leaves to observe
MaxLater == 2
LaterCalls ==
    {<<"start", None>>, <<"stop", None>>, <<"reset", None>>}
        \cup {<<"update", v>> : v \in OptValues}

Apply(m, call) ==
    CASE call[1] = "start" -> start(m)
      [] call[1] = "stop" -> stop(m)
      [] call[1] = "reset" -> reset(m)
      [] call[1] = "update" -> update(m, call[2])

SameOutcome(x, y) ==
    /\ x.raised = y.raised
    /\ x.m.measured_value = y.m.measured_value
    /\ x.m.prev_measured_value = y.m.prev_measured_value
    /\ x.m.measuring = y.m.measuring

RECURSIVE SameLater(_, _, _)
SameLater(a, b, n) ==
    \/ n = 0
    \/ \A call \in LaterCalls :
          LET x == Apply(a, call)
              y == Apply(b, call)
          IN  SameOutcome(x, y) /\ SameLater(x.m, y.m, n - 1)

\* C19: an extra start() on a SourceMeter that is measuring with known
\* readings leaves measured_value unchanged, and every later update(v),
\* stop() or reset() gives the measured_value and prev_measured_value it
\* gives without that start().
C19_ExtraStartLossless ==
    (IsSource /\ Called("start") /\ pre.measuring
        /\ Known(pre.source_value) /\ Known(pre.session_start_value)) =>
        /\ meter.measured_value = pre.measured_value
        /\ meter.prev_measured_value = pre.prev_measured_value
        /\ SameLater(meter, pre, MaxLater)

C19_Witness ==
    /\ IsSource
    /\ Called("start")
    /\ pre.measuring
    /\ Known(pre.source_value)
    /\ Known(pre.session_start_value)
    /\ pre.measured_value # 0
    /\ meter.session_start_value # pre.session_start_value
    /\ meter.prev_measured_value # 0

\* C20: a SourceMeter call that fails because a reading is absent leaves
\* every field of the meter as it was before the call.
C20_FailedCallChangesNothing ==
    (IsSource /\ raised /\ op.name \in {"update", "stop"}) => meter = pre

====
